---------------------------- MODULE Spec2Model ----------------------------
(***************************************************************************)
(* Worst Case Stack analyzer (WCS.py): the CallGraph loaders, the call     *)
(* resolution pass, the recursive worst-case computation calc_wcs, the     *)
(* report and the stack budget check, as a state machine.                  *)
(*                                                                         *)
(* A function record is the Python dict of WCS.py.  Its optional keys are  *)
(* listed in the field "keys"; a field whose key is absent holds a filler  *)
(* value that is never read.  Records live in the store fxn, indexed by    *)
(* <<"globals", name, "">> or <<"locals", name, tu>>; the sequences        *)
(* globals and locals keep the insertion (iteration) order of the dicts.   *)
(*                                                                         *)
(* main() calls read_obj once, with the name of the linked ELF file as tu, *)
(* and read_rtl and read_su once per translation unit, with the unit's     *)
(* name: every record carries the ELF name as its tu, and a LOCAL symbol   *)
(* is never found by the lookups read_rtl and read_su make.                *)
(***************************************************************************)
EXTENDS Integers, Sequences, FiniteSets, TLC

VARIABLES
    pc,          \* position of main(): the pass that is running
    fxn,         \* store of function records: id -> record
    globals,     \* CallGraph.globals: names in insertion order
    locals,      \* CallGraph.locals: <<name, tu>> in iteration order
    weak,        \* CallGraph.weak: records in insertion order
    irqs,        \* CallGraph.irqs
    rtl,         \* read_rtl's locals: tu, fxn_dict2, last_fxn, files read
    stack,       \* calc_wcs activation frames, outermost first
    todo,        \* functions calc_all_wcs has still to visit
    rows,        \* table printed by print_all_fxns
    verdict,     \* statement printed by check_stack_size
    error,       \* exception that ended the run ("" while running)
    log,         \* diagnostics printed by the loaders
    cnt,         \* inputs consumed and passes run so far
    hist         \* history: the symbol read_obj read last, the records an
                 \* indirect call was read for, the records as they were
                 \* after the first computation, how often the body of
                 \* calc_wcs was entered for each record

vars == <<pc, fxn, globals, locals, weak, irqs, rtl, stack, todo, rows,
          verdict, error, log, cnt, hist>>

---------------------------------------------------------------------------
(* Bounds of the model and the input alphabets *)

MaxSyms == 2        \* symbols read by read_obj
MaxLines == 4       \* trace lines read by read_rtl
MaxSu == 1          \* lines read by read_su
MaxManual == 1      \* lines read by read_manual
MaxRuns == 2        \* times resolve_all_calls + calc_all_wcs are run
MaxFeatures == 4    \* call names + pointer calls + clobbers of a drawn graph

Names == {"f", "g", "_irq_h"}          \* function names
LoadNames == {"f", "_irq_h"}           \* names the loaders' inputs use
Units == {"u1", "u2"}                  \* translation units (tu_list)
ElfName == "elf"                       \* common_base + obj_ext, no unit
ExtName == "ext"                       \* a callee name nobody defines
OwnBytes == {8}                        \* frame sizes in the .su input
\* What follows "addi sp, sp, " on a line: a bare number, a number with
\* the rest of an asm string after it, a register name.
ClobberOperands == {"-4", "4", "-4\")", "t0"}
Limits == {16, 24}                     \* configured stack sizes (argv[2])

unbounded == -1     \* stands for the string 'unbounded' (never an int)
NoneId == <<"None", "", "">>            \* Python None held by fxn_dict2
UnboundId == <<"unbound", "", "">>      \* fxn_dict2 not yet assigned

GId(name) == <<"globals", name, "">>
LId(name, tu) == <<"locals", name, tu>>

startswith(s, p) == Len(s) >= Len(p) /\ SubSeq(s, 1, Len(p)) = p

MaxLast(a, b) == b

Max(a, b) == IF a >= b THEN a ELSE b

abs(n) == IF n < 0 THEN -n ELSE n

\* eval(sp): the value of a number, SyntaxError for text that is no
\* expression, NameError for a name that is not defined.
eval(sp) ==
    CASE sp = "-4" -> [exc |-> "", val |-> -4]
      [] sp = "4" -> [exc |-> "", val |-> 4]
      [] sp = "t0" -> [exc |-> "NameError", val |-> 0]
      [] OTHER -> [exc |-> "SyntaxError", val |-> 0]

Range(s) == {s[i] : i \in 1..Len(s)}

\* The dict literal of read_obj: only tu, name and binding are present.
NewFxn(tu, name, binding) ==
    [keys |-> {}, tu |-> tu, name |-> name, binding |-> binding,
     demangledName |-> "", calls |-> {}, has_ptr_call |-> FALSE,
     local_stack |-> 0, clob_sp |-> 0, r_calls |-> <<>>,
     unresolved_calls |-> {}, wcs |-> 0]

\* The dict literal of read_manual.
ManualFxn(name, sz) ==
    [keys |-> {"wcs", "calls", "has_ptr_call", "local_stack", "is_manual",
               "demangledName"},
     tu |-> "#MANUAL", name |-> name, binding |-> "GLOBAL",
     demangledName |-> name, calls |-> {}, has_ptr_call |-> FALSE,
     local_stack |-> sz, clob_sp |-> 0, r_calls |-> <<>>,
     unresolved_calls |-> {}, wcs |-> sz]

\* Every record of globals, then of locals: the order of the loops over
\* self.globals.values() and self.locals.values().
AllFxns == [i \in 1..(Len(globals) + Len(locals)) |->
              IF i <= Len(globals) THEN GId(globals[i])
              ELSE LId(locals[i - Len(globals)][1], locals[i - Len(globals)][2])]

LocalNames == {locals[i][1] : i \in 1..Len(locals)}

---------------------------------------------------------------------------
(* SymbolResolver: read_obj, the weak merge of main, find_fxn *)

Symbols == [type : {"FUNC"}, binding : {"GLOBAL", "LOCAL", "WEAK"}, name : LoadNames]
             \cup {[type |-> "OBJECT", binding |-> "GLOBAL", name |-> "f"],
                   [type |-> "FUNC", binding |-> "UNIQUE", name |-> "f"]}

\* self.locals[name][tu] = ...: a new name goes to the end, a new tu of a
\* known name goes after the last entry of that name.
LocalsInsert(ls, name, tu) ==
    IF \E i \in 1..Len(ls) : ls[i][1] = name
    THEN LET last == CHOOSE i \in 1..Len(ls) :
                        /\ ls[i][1] = name
                        /\ \A j \in (i+1)..Len(ls) : ls[j][1] # name
         IN SubSeq(ls, 1, last) \o <<(<<name, tu>>)>> \o SubSeq(ls, last + 1, Len(ls))
    ELSE Append(ls, <<name, tu>>)

Raise(exc) ==
    /\ error' = exc
    /\ pc' = "aborted"

\* One iteration of read_obj's loop over the symbols of readelf.
ReadObj(tu, s) ==
    /\ pc = "read_obj"
    /\ cnt.syms < MaxSyms
    /\ cnt' = [cnt EXCEPT !.syms = @ + 1]
    /\ UNCHANGED <<irqs, rtl, stack, todo, rows, verdict, log>>
    /\ IF s.type # "FUNC"
       THEN /\ UNCHANGED <<pc, fxn, globals, locals, weak, error>>
            /\ hist' = hist
       ELSE CASE s.binding = "GLOBAL" ->
                   /\ hist' = [hist EXCEPT !.reg = <<tu, s.name, s.binding>>]
                   /\ IF s.name \in Range(globals) \/ s.name \in LocalNames
                      THEN /\ Raise("Exception")
                           /\ UNCHANGED <<fxn, globals, locals, weak>>
                      ELSE /\ fxn' = (GId(s.name) :> NewFxn(tu, s.name, s.binding)) @@ fxn
                           /\ globals' = Append(globals, s.name)
                           /\ UNCHANGED <<pc, locals, weak, error>>
              [] s.binding = "LOCAL" ->
                   /\ hist' = [hist EXCEPT !.reg = <<tu, s.name, s.binding>>]
                   /\ IF <<s.name, tu>> \in Range(locals)
                      THEN /\ Raise("Exception")
                           /\ UNCHANGED <<fxn, globals, locals, weak>>
                      ELSE /\ fxn' = (LId(s.name, tu) :> NewFxn(tu, s.name, s.binding)) @@ fxn
                           /\ locals' = LocalsInsert(locals, s.name, tu)
                           /\ UNCHANGED <<pc, globals, weak, error>>
              [] s.binding = "WEAK" ->
                   /\ hist' = [hist EXCEPT !.reg = <<tu, s.name, s.binding>>]
                   /\ IF \E i \in 1..Len(weak) : weak[i].name = s.name
                      THEN /\ Raise("Exception")
                           /\ UNCHANGED <<fxn, globals, locals, weak>>
                      ELSE /\ weak' = Append(weak, NewFxn(tu, s.name, s.binding))
                           /\ UNCHANGED <<pc, fxn, globals, locals, error>>
              [] OTHER ->
                   /\ hist' = [hist EXCEPT !.reg = <<tu, s.name, s.binding>>]
                   /\ Raise("Exception")
                   /\ UNCHANGED <<fxn, globals, locals, weak>>

\* main(): every weak symbol whose name is no global becomes a global.
RECURSIVE MergeWeakFrom(_, _, _)
MergeWeakFrom(i, F, G) ==
    IF i > Len(weak) THEN [fxn |-> F, globals |-> G]
    ELSE IF weak[i].name \in Range(G)
         THEN MergeWeakFrom(i + 1, F, G)
         ELSE MergeWeakFrom(i + 1, (GId(weak[i].name) :> weak[i]) @@ F,
                            Append(G, weak[i].name))

MergeWeak ==
    /\ pc = "read_obj"
    /\ LET m == MergeWeakFrom(1, fxn, globals)
       IN /\ fxn' = m.fxn
          /\ globals' = m.globals
    /\ pc' = "read_rtl"
    /\ hist' = [hist EXCEPT !.reg = <<>>]
    /\ UNCHANGED <<locals, weak, irqs, rtl, stack, todo, rows, verdict,
                   error, log, cnt>>

\* find_fxn: the global of that name, else the local of that name in tu,
\* else None.
find_fxn(F, tu, name) ==
    IF GId(name) \in DOMAIN F THEN GId(name)
    ELSE IF LId(name, tu) \in DOMAIN F THEN LId(name, tu)
    ELSE NoneId

---------------------------------------------------------------------------
(* CallSite Extractor: read_rtl, one trace line at a time *)

RtlClosed == [tu |-> "", fxn_dict2 |-> UnboundId, last_fxn |-> "", read |-> {}]

\* The line shapes the four regular expressions of read_rtl tell apart.  A
\* function marker carries the display name (group 1) and the symbol name
\* (group 2); the traces read here are of C functions, where they agree.
RtlLines ==
    {[kind |-> "function", name |-> n, demangled |-> n, sp |-> ""] : n \in LoadNames}
      \cup {[kind |-> "static_call", name |-> n, demangled |-> "", sp |-> ""] :
               n \in LoadNames \cup {ExtName}}
      \cup {[kind |-> "other_call", name |-> "", demangled |-> "", sp |-> ""]}
      \cup {[kind |-> "sp_clobber", name |-> "", demangled |-> "", sp |-> o] :
               o \in ClobberOperands}
      \cup {[kind |-> "other", name |-> "", demangled |-> "", sp |-> ""]}

\* read_rtl(tu, rtl_ext) opens the trace of tu: its locals start afresh.
OpenRtl(tu) ==
    /\ pc = "read_rtl"
    /\ tu \notin rtl.read
    /\ rtl' = [tu |-> tu, fxn_dict2 |-> UnboundId, last_fxn |-> "",
               read |-> rtl.read \cup {tu}]
    /\ UNCHANGED <<pc, fxn, globals, locals, weak, irqs, stack, todo, rows,
                   verdict, error, log, cnt, hist>>

\* Subscripting fxn_dict2 when it is unassigned or None.
SubscriptError(d) ==
    IF d = UnboundId THEN "UnboundLocalError"
    ELSE IF d = NoneId THEN "TypeError"
    ELSE ""

\* One iteration of the loop over the lines of the trace.
ReadRtl(l) ==
    /\ pc = "read_rtl"
    /\ rtl.tu # ""
    /\ cnt.lines < MaxLines
    /\ cnt' = [cnt EXCEPT !.lines = @ + 1]
    /\ UNCHANGED <<globals, locals, weak, stack, todo, rows, verdict>>
    /\ CASE l.kind = "function" ->
              LET d == find_fxn(fxn, rtl.tu, l.name)
              IN /\ rtl' = [rtl EXCEPT !.last_fxn = l.name, !.fxn_dict2 = d]
                 /\ UNCHANGED <<pc, error, hist>>
                 /\ IF d = NoneId
                    THEN /\ log' = log \cup {<<"locating", l.name, rtl.tu>>}
                         /\ UNCHANGED <<fxn, irqs>>
                    ELSE /\ irqs' = IF startswith(l.name, "_irq")
                                    THEN Append(irqs, l.name) ELSE irqs
                         /\ fxn' = [fxn EXCEPT ![d] =
                               [@ EXCEPT !.keys = @ \cup {"demangledName", "calls", "has_ptr_call"},
                                         !.demangledName = l.demangled,
                                         !.calls = {},
                                         !.has_ptr_call = FALSE]]
                         /\ UNCHANGED log
         [] l.kind = "static_call" ->
              /\ UNCHANGED <<irqs, rtl, log, hist>>
              /\ IF SubscriptError(rtl.fxn_dict2) # ""
                 THEN /\ Raise(SubscriptError(rtl.fxn_dict2))
                      /\ UNCHANGED fxn
                 ELSE /\ fxn' = [fxn EXCEPT ![rtl.fxn_dict2].calls = @ \cup {l.name}]
                      /\ UNCHANGED <<pc, error>>
         [] l.kind = "other_call" ->
              /\ UNCHANGED <<irqs, rtl, log>>
              /\ IF SubscriptError(rtl.fxn_dict2) # ""
                 THEN /\ Raise(SubscriptError(rtl.fxn_dict2))
                      /\ UNCHANGED <<fxn, hist>>
                 ELSE /\ fxn' = [fxn EXCEPT ![rtl.fxn_dict2].has_ptr_call = TRUE]
                      /\ hist' = [hist EXCEPT !.ptr = @ \cup {rtl.fxn_dict2}]
                      /\ UNCHANGED <<pc, error>>
         [] l.kind = "sp_clobber" ->
              /\ UNCHANGED <<irqs, hist>>
              /\ IF rtl.last_fxn = ""
                 THEN UNCHANGED <<pc, error, fxn, rtl, log>>
                 ELSE LET d == find_fxn(fxn, rtl.tu, rtl.last_fxn)
                          clob_sp_val == eval(l.sp)
                      IN /\ rtl' = [rtl EXCEPT !.fxn_dict2 = d]
                         /\ IF d = NoneId
                            THEN /\ log' = log \cup {<<"locating", rtl.last_fxn, rtl.tu>>}
                                 /\ UNCHANGED <<pc, error, fxn>>
                            ELSE IF clob_sp_val.exc # ""
                                 THEN /\ Raise(clob_sp_val.exc)
                                      /\ UNCHANGED <<fxn, log>>
                                 ELSE /\ UNCHANGED <<pc, error, log>>
                                      /\ fxn' = IF clob_sp_val.val < 0
                                                THEN [fxn EXCEPT ![d] =
                                                       [@ EXCEPT !.keys = @ \cup {"clob_sp"},
                                                                 !.clob_sp = abs(clob_sp_val.val)]]
                                                ELSE fxn
         [] OTHER ->
              UNCHANGED <<pc, fxn, irqs, rtl, error, log, hist>>

---------------------------------------------------------------------------
(* Frame-Size Loader and Manual Override Loader *)

SuLines == [ok : {TRUE}, fxn : LoadNames, bytes : OwnBytes]
             \cup {[ok |-> FALSE, fxn |-> "", bytes |-> 0]}

\* find_demangled_fxn: the first global whose demangledName is name, else
\* the first local of tu whose demangledName is name, else None.
find_demangled_fxn(tu, name) ==
    LET HitG(i) == /\ "demangledName" \in fxn[GId(globals[i])].keys
                   /\ fxn[GId(globals[i])].demangledName = name
        HitL(i) == /\ locals[i][2] = tu
                   /\ "demangledName" \in fxn[LId(locals[i][1], tu)].keys
                   /\ fxn[LId(locals[i][1], tu)].demangledName = name
    IN IF \E i \in 1..Len(globals) : HitG(i)
       THEN GId(globals[CHOOSE i \in 1..Len(globals) :
                          HitG(i) /\ \A j \in 1..(i-1) : ~HitG(j)])
       ELSE IF \E i \in 1..Len(locals) : HitL(i)
            THEN LId(locals[CHOOSE i \in 1..Len(locals) :
                              HitL(i) /\ \A j \in 1..(i-1) : ~HitL(j)][1], tu)
            ELSE NoneId

\* One iteration of read_su's loop over the lines of the .su file of tu.
ReadSu(tu, l) ==
    /\ pc \in {"read_rtl", "read_su"}
    /\ cnt.su < MaxSu
    /\ cnt' = [cnt EXCEPT !.su = @ + 1]
    /\ pc' = "read_su"
    /\ rtl' = RtlClosed
    /\ UNCHANGED <<globals, locals, weak, irqs, stack, todo, rows, verdict,
                   error, hist>>
    /\ IF l.ok
       THEN LET d == find_demangled_fxn(tu, l.fxn)
            IN /\ fxn' = IF d # NoneId
                         THEN [fxn EXCEPT ![d] =
                                [@ EXCEPT !.keys = @ \cup {"local_stack"},
                                          !.local_stack = l.bytes]]
                         ELSE fxn
               /\ UNCHANGED log
       ELSE /\ log' = log \cup {<<"su_parse", "", tu>>}
            /\ UNCHANGED fxn

ManualLines == [fxn : {"f", ExtName}, stack_sz : {16}]

\* One iteration of read_manual's loop over the lines of a .msu file.
ReadManual(l) ==
    /\ pc \in {"read_rtl", "read_su", "read_manual"}
    /\ cnt.manual < MaxManual
    /\ cnt' = [cnt EXCEPT !.manual = @ + 1]
    /\ rtl' = RtlClosed
    /\ UNCHANGED <<locals, weak, irqs, stack, todo, rows, verdict, log, hist>>
    /\ IF l.fxn \in Range(globals)
       THEN /\ Raise("Exception")
            /\ UNCHANGED <<fxn, globals>>
       ELSE /\ fxn' = (GId(l.fxn) :> ManualFxn(l.fxn, l.stack_sz)) @@ fxn
            /\ globals' = Append(globals, l.fxn)
            /\ pc' = "read_manual"
            /\ UNCHANGED error

\* validate_dict: the records that miss a field.
MissingData(F) ==
    {<<"missing", F[id].name, F[id].tu>> :
       id \in {j \in DOMAIN F :
                ~({"calls", "has_ptr_call", "local_stack"} \subseteq F[j].keys)}}

\* validate_all_data: prints the records that miss a field.
ValidateAllData ==
    /\ pc \in {"read_rtl", "read_su", "read_manual"}
    /\ pc' = "resolve"
    /\ rtl' = RtlClosed
    /\ log' = log \cup MissingData(fxn)
    /\ UNCHANGED <<fxn, globals, locals, weak, irqs, stack, todo, rows,
                   verdict, error, cnt, hist>>

---------------------------------------------------------------------------
(* CallGraph resolution: resolve_all_calls *)

\* The records the raw callee names of a record resolve to.
ResolvedOf(F, id) ==
    IF "calls" \in F[id].keys
    THEN {find_fxn(F, F[id].tu, c) : c \in F[id].calls} \ {NoneId}
    ELSE {}

\* The orders in which "for call in fxn_dict2['calls']" can visit a set.
RECURSIVE Orderings(_)
Orderings(S) ==
    IF S = {} THEN {<<>>}
    ELSE UNION {{<<x>> \o s : s \in Orderings(S \ {x})} : x \in S}

\* One visiting order for every record of D.
RECURSIVE RCallChoices(_, _)
RCallChoices(F, D) ==
    IF D = {} THEN {<<>>}
    ELSE LET d == CHOOSE x \in D : TRUE
         IN {(d :> o) @@ g : o \in Orderings(ResolvedOf(F, d)),
                             g \in RCallChoices(F, D \ {d})}

\* resolve_calls: r_calls in the order the set was visited, and the names
\* find_fxn does not know.
resolve_calls(F, id, order) ==
    [F[id] EXCEPT
       !.keys = @ \cup {"r_calls", "unresolved_calls"},
       !.r_calls = order,
       !.unresolved_calls =
           IF "calls" \in F[id].keys
           THEN {c \in F[id].calls : find_fxn(F, F[id].tu, c) = NoneId}
           ELSE {}]

CalcFinished == pc = "calc" /\ stack = <<>> /\ todo = <<>>

\* resolve_all_calls over every global and local, each set of raw names
\* visited in the order rc gives; calc_all_wcs starts its loop over the
\* same records next.
ResolvePass(rc) ==
    /\ fxn' = [id \in DOMAIN fxn |-> resolve_calls(fxn, id, rc[id])]
    /\ pc' = "calc"
    /\ todo' = AllFxns
    /\ cnt' = [cnt EXCEPT !.runs = @ + 1]
    /\ UNCHANGED <<globals, locals, weak, irqs, rtl, stack, rows, verdict,
                   error, log>>

\* main(): call_graph.resolve_all_calls()
ResolveAllCalls ==
    /\ pc = "resolve"
    /\ \E rc \in RCallChoices(fxn, DOMAIN fxn) : ResolvePass(rc)
    /\ UNCHANGED hist

\* resolve_all_calls and calc_all_wcs called once more on the same graph.
\* A set that was not changed is visited in the same order again.
ResolveAgain ==
    /\ CalcFinished
    /\ cnt.runs < MaxRuns
    /\ ResolvePass([id \in DOMAIN fxn |-> fxn[id].r_calls])
    /\ hist' = IF cnt.runs = 1 THEN [hist EXCEPT !.first = fxn] ELSE hist

---------------------------------------------------------------------------
(* WCS Engine: calc_wcs, one activation frame per call in progress *)

SetWcs(F, id, v) ==
    [F EXCEPT ![id] = [@ EXCEPT !.keys = @ \cup {"wcs"}, !.wcs = v]]

\* fxn_dict2 in parents: list membership, by identity or dict equality.
InParents(F, id, parents) ==
    \E i \in 1..Len(parents) : parents[i] = id \/ F[parents[i]] = F[id]

\* Lines 75-77: a function found among its own callers is unbounded.
OnRecursionBounded(F, id) == SetWcs(F, id, 0)

OnRecursion(F, id) == SetWcs(F, id, unbounded)

\* calc_wcs up to its loop (lines 62-77): the records afterwards, and
\* whether the loop over r_calls is entered.
CalcWcsEntry(F, id, parents) ==
    IF "wcs" \in F[id].keys
    THEN [fxn |-> F, enter |-> FALSE]
    ELSE LET F1 == IF "has_ptr_call" \notin F[id].keys
                   THEN [F EXCEPT ![id] =
                          [@ EXCEPT !.keys = @ \cup {"has_ptr_call"},
                                    !.has_ptr_call = FALSE]]
                   ELSE F
         IN IF F1[id].has_ptr_call
            THEN [fxn |-> SetWcs(F1, id, unbounded), enter |-> FALSE]
            ELSE IF InParents(F1, id, parents)
                 THEN [fxn |-> OnRecursion(F1, id), enter |-> FALSE]
                 ELSE [fxn |-> F1, enter |-> TRUE]

Frame(id) == [f |-> id, i |-> 1, call_max |-> 0, at |-> "call"]

\* Line 80: one more activation has reached the body of calc_wcs for id.
EnterBody(h, e, id) ==
    IF ~e.enter THEN h
    ELSE [h EXCEPT !.body = IF id \in DOMAIN @
                            THEN [@ EXCEPT ![id] = @ + 1]
                            ELSE @ @@ (id :> 1)]

Top == stack[Len(stack)]

Pop == SubSeq(stack, 1, Len(stack) - 1)

Parents == [k \in 1..Len(stack) |-> stack[k].f]

\* calc_all_wcs: the next record of the loop, calc_wcs(fxn_dict, []).
CalcAllWcs ==
    /\ pc = "calc"
    /\ stack = <<>>
    /\ todo # <<>>
    /\ LET e == CalcWcsEntry(fxn, Head(todo), <<>>)
       IN /\ fxn' = e.fxn
          /\ stack' = IF e.enter THEN <<Frame(Head(todo))>> ELSE <<>>
          /\ hist' = EnterBody(hist, e, Head(todo))
    /\ todo' = Tail(todo)
    /\ UNCHANGED <<pc, globals, locals, weak, irqs, rtl, rows, verdict,
                   error, log, cnt>>

\* Line 84: calc_wcs(call_dict, parents + [fxn_dict2]) for the next callee.
CalcWcsCall ==
    /\ pc = "calc"
    /\ stack # <<>>
    /\ Top.at = "call"
    /\ Top.i <= Len(fxn[Top.f].r_calls)
    /\ LET c == fxn[Top.f].r_calls[Top.i]
           e == CalcWcsEntry(fxn, c, Parents)
       IN /\ fxn' = e.fxn
          /\ stack' = [stack EXCEPT ![Len(stack)].at = "after"]
                         \o (IF e.enter THEN <<Frame(c)>> ELSE <<>>)
          /\ hist' = EnterBody(hist, e, c)
    /\ UNCHANGED <<pc, globals, locals, weak, irqs, rtl, todo, rows, verdict,
                   error, log, cnt>>

\* Lines 94-96: the callee's unresolved names become the caller's too.
PropagateNothing(mine, theirs) == mine

Propagate(mine, theirs) == mine \cup theirs

\* Lines 86-96: the callee has returned.
CalcWcsAfterCall ==
    /\ pc = "calc"
    /\ stack # <<>>
    /\ Top.at = "after"
    /\ LET c == fxn[Top.f].r_calls[Top.i]
       IN IF fxn[c].wcs = unbounded
          THEN /\ fxn' = SetWcs(fxn, Top.f, unbounded)
               /\ stack' = Pop
          ELSE /\ fxn' = [fxn EXCEPT ![Top.f].unresolved_calls =
                                        Propagate(@, fxn[c].unresolved_calls)]
               /\ stack' = [stack EXCEPT ![Len(stack)] =
                              [@ EXCEPT !.call_max = Max(@, fxn[c].wcs),
                                        !.i = @ + 1,
                                        !.at = "call"]]
    /\ UNCHANGED <<pc, globals, locals, weak, irqs, rtl, todo, rows, verdict,
                   error, log, cnt, hist>>

\* Lines 98-100: the loop is over, wcs = call_max + local_stack.
CalcWcsSum ==
    /\ pc = "calc"
    /\ stack # <<>>
    /\ Top.at = "call"
    /\ Top.i > Len(fxn[Top.f].r_calls)
    /\ LET F1 == IF "local_stack" \notin fxn[Top.f].keys
                 THEN [fxn EXCEPT ![Top.f] =
                        [@ EXCEPT !.keys = @ \cup {"local_stack"},
                                  !.local_stack = 0]]
                 ELSE fxn
       IN fxn' = SetWcs(F1, Top.f, Top.call_max + F1[Top.f].local_stack)
    /\ stack' = [stack EXCEPT ![Len(stack)].at = "clob"]
    /\ UNCHANGED <<pc, globals, locals, weak, irqs, rtl, todo, rows, verdict,
                   error, log, cnt, hist>>

\* Lines 102-103: wcs += wcs + clob_sp when the clobber is set; return.
CalcWcsClobber ==
    /\ pc = "calc"
    /\ stack # <<>>
    /\ Top.at = "clob"
    /\ fxn' = IF "clob_sp" \in fxn[Top.f].keys
              THEN [fxn EXCEPT ![Top.f].wcs = @ + (@ + fxn[Top.f].clob_sp)]
              ELSE fxn
    /\ stack' = Pop
    /\ UNCHANGED <<pc, globals, locals, weak, irqs, rtl, todo, rows, verdict,
                   error, log, cnt, hist>>

---------------------------------------------------------------------------
(* Reporter: print_all_fxns *)

\* get_order: the sort key, 1 for 'unbounded' and -wcs otherwise.
get_order(val) == IF val = unbounded THEN 1 ELSE -val

\* print_fxn: the row of one record.  The stack column is the prefix
\* "unbounded:" (when a bounded record has unresolved names) and the value.
print_fxn(d) ==
    [tu |-> d.tu,
     name |-> IF "demangledName" \in d.keys THEN d.demangledName ELSE d.name,
     stack |-> <<IF d.unresolved_calls # {} /\ d.wcs # unbounded
                 THEN "unbounded:" ELSE "", d.wcs>>,
     unresolved |-> d.unresolved_calls]

\* list.sort(key=...): stable, ascending by key.
RECURSIVE SortByOrder(_, _)
SortByOrder(F, ids) ==
    IF ids = <<>> THEN <<>>
    ELSE LET n == Len(ids)
             rest == SortByOrder(F, SubSeq(ids, 1, n - 1))
             k == get_order(F[ids[n]].wcs)
             pos == Cardinality({j \in 1..Len(rest) : get_order(F[rest[j]].wcs) <= k})
         IN SubSeq(rest, 1, pos) \o <<ids[n]>> \o SubSeq(rest, pos + 1, Len(rest))

PrintAllFxns ==
    /\ CalcFinished
    /\ IF AllFxns = <<>>
       THEN /\ Raise("ValueError")        \* max() of an empty sequence
            /\ UNCHANGED rows
       ELSE /\ rows' = LET sorted == SortByOrder(fxn, AllFxns)
                       IN [i \in 1..Len(sorted) |-> print_fxn(fxn[sorted[i]])]
            /\ pc' = "check"
            /\ UNCHANGED error
    /\ UNCHANGED <<fxn, globals, locals, weak, irqs, rtl, stack, todo,
                   verdict, log, cnt, hist>>

---------------------------------------------------------------------------
(* Budget Checker: check_stack_size *)

NoVerdict == [kind |-> "", wcs |-> 0, provided |-> 0, fxn |-> "", irq |-> ""]

\* The loop of lines 367-376 from record i on.  Comparing the string
\* 'unbounded' with an int raises TypeError.
RECURSIVE CheckLoop(_, _, _, _)
CheckLoop(F, ids, i, acc) ==
    IF i > Len(ids) THEN acc
    ELSE LET d == F[ids[i]]
         IN IF d.wcs = unbounded
            THEN [acc EXCEPT !.err = "TypeError"]
            ELSE IF ~startswith(d.name, "_irq") /\ d.wcs > acc.max_stack
                 THEN CheckLoop(F, ids, i + 1,
                        [acc EXCEPT !.max_stack = d.wcs, !.fxn = d.name])
                 ELSE IF startswith(d.name, "_irq") /\ d.wcs > acc.max_irq
                      THEN CheckLoop(F, ids, i + 1,
                             [acc EXCEPT !.max_irq = d.wcs, !.irq = d.name])
                      ELSE CheckLoop(F, ids, i + 1, acc)

TooSmallOrEqual(wcs, limit) == wcs >= limit

\* wcs > int(stack_size)
TooSmall(wcs, limit) == wcs > limit

\* check_stack_size; limit is the configured stack size, int(sys.argv[2]).
CheckStackSize(limit) ==
    /\ pc = "check"
    /\ LET r == CheckLoop(fxn, AllFxns, 1,
                   [max_stack |-> 0, max_irq |-> 0, fxn |-> "", irq |-> "", err |-> ""])
           wcs == r.max_stack + r.max_irq
       IN IF r.err # ""
          THEN /\ Raise(r.err)
               /\ UNCHANGED verdict
          ELSE /\ verdict' = IF TooSmall(wcs, limit)
                             THEN [kind |-> "too_small", wcs |-> wcs, provided |-> limit,
                                   fxn |-> r.fxn, irq |-> r.irq]
                             ELSE [kind |-> "ok", wcs |-> wcs, provided |-> limit,
                                   fxn |-> "", irq |-> ""]
               /\ pc' = "done"
               /\ UNCHANGED error
    /\ UNCHANGED <<fxn, globals, locals, weak, irqs, rtl, stack, todo, rows,
                   log, cnt, hist>>

---------------------------------------------------------------------------
(* The run of main() from the construction of the CallGraph *)

Init ==
    /\ pc = "read_obj"
    /\ fxn = <<>>
    /\ globals = <<>>
    /\ locals = <<>>
    /\ weak = <<>>
    /\ irqs = <<>>
    /\ rtl = RtlClosed
    /\ stack = <<>>
    /\ todo = <<>>
    /\ rows = <<>>
    /\ verdict = NoVerdict
    /\ error = ""
    /\ log = {}
    /\ cnt = [syms |-> 0, lines |-> 0, su |-> 0, manual |-> 0, runs |-> 0]
    /\ hist = [reg |-> <<>>, ptr |-> {}, first |-> <<>>, body |-> <<>>]

Load ==
    \/ \E s \in Symbols : ReadObj(ElfName, s)
    \/ MergeWeak
    \/ \E tu \in Units : OpenRtl(tu)
    \/ \E l \in RtlLines : ReadRtl(l)
    \/ \E tu \in Units, l \in SuLines : ReadSu(tu, l)
    \/ \E l \in ManualLines : ReadManual(l)
    \/ ValidateAllData

Analyse ==
    \/ ResolveAllCalls
    \/ CalcAllWcs
    \/ CalcWcsCall
    \/ CalcWcsAfterCall
    \/ CalcWcsSum
    \/ CalcWcsClobber
    \/ PrintAllFxns
    \/ \E limit \in Limits : CheckStackSize(limit)

Next == Load \/ Analyse

Spec == Init /\ [][Next]_vars

---------------------------------------------------------------------------
(* The analysis of a loaded call graph.  The loaded graphs are drawn: three *)
(* functions registered in any order (or two globals and a local), frame   *)
(* sizes from a profile, and at most MaxFeatures trace features (direct    *)
(* calls, indirect calls, stack pointer clobbers).  A LOCAL function is    *)
(* the bare record of read_obj, and its trace holds no call: the marker of *)
(* a LOCAL leaves fxn_dict2 None, which a call line subscripts.            *)

Permutations3 == Orderings(Names)

Layouts ==
    {[globals |-> p, locals |-> <<>>] : p \in Permutations3}
      \cup {[globals |-> <<"f", "_irq_h">>, locals |-> <<(<<"g", ElfName>>)>>]}

\* The unit whose trace and .su file describe the function.
UnitOf == [n \in Names |-> IF n = "_irq_h" THEN "u2" ELSE "u1"]

\* Frame sizes of the .su files; 0 stands for "no line for this function".
StackProfiles ==
    {[n \in Names |-> CASE n = "f" -> 8 [] n = "g" -> 12 [] OTHER -> 4],
     [n \in Names |-> CASE n = "f" -> 8 [] n = "g" -> 8 [] OTHER -> 0]}

ClobberBytes ==
    {abs(eval(o).val) : o \in {x \in ClobberOperands :
                                  eval(x).exc = "" /\ eval(x).val < 0}}

Features ==
    {<<"call", a, b>> : a \in Names, b \in Names \cup {ExtName}}
      \cup {<<"ptr", a, "">> : a \in Names}
      \cup {<<"clob", a, "">> : a \in Names}

\* The record the loaders leave for function n of a layout.
LoadedFxn(n, binding, prof, feat, clob) ==
    LET calls == {b \in Names \cup {ExtName} : <<"call", n, b>> \in feat}
        ptr == <<"ptr", n, "">> \in feat
        clb == <<"clob", n, "">> \in feat
        marked == calls # {} \/ ptr \/ clb \/ prof[n] # 0
        base == NewFxn(ElfName, n, binding)
    IN IF ~marked \/ binding = "LOCAL" THEN base
       ELSE [base EXCEPT
               !.keys = {"demangledName", "calls", "has_ptr_call"}
                          \cup (IF prof[n] # 0 THEN {"local_stack"} ELSE {})
                          \cup (IF clb THEN {"clob_sp"} ELSE {}),
               !.demangledName = n,
               !.calls = calls,
               !.has_ptr_call = ptr,
               !.local_stack = prof[n],
               !.clob_sp = IF clb THEN clob ELSE 0]

\* The functions whose trace has a marker, and the features a trace can
\* have without ending read_rtl.
Marked(n, prof, feat) ==
    prof[n] # 0 \/ \E x \in feat : x[2] = n

Loadable(lay, feat) ==
    \A i \in 1..Len(lay.locals), x \in feat :
        x[2] = lay.locals[i][1] => x[1] = "clob"

LoadedGraph(lay, prof, feat, clob) ==
    LET gids == {GId(lay.globals[i]) : i \in 1..Len(lay.globals)}
        lids == {LId(lay.locals[i][1], lay.locals[i][2]) : i \in 1..Len(lay.locals)}
    IN [id \in gids \cup lids |->
          LoadedFxn(id[2], IF id[1] = "globals" THEN "GLOBAL" ELSE "LOCAL",
                    prof, feat, clob)]

InitWcs ==
    /\ \E lay \in Layouts, prof \in StackProfiles, clob \in ClobberBytes :
         \E feat \in {x \in SUBSET Features : Cardinality(x) <= MaxFeatures} :
            /\ Loadable(lay, feat)
            /\ globals = lay.globals
            /\ locals = lay.locals
            /\ fxn = LoadedGraph(lay, prof, feat, clob)
            /\ log = MissingData(fxn)
                       \cup {<<"locating", lay.locals[i][1], UnitOf[lay.locals[i][1]]>> :
                               i \in {j \in 1..Len(lay.locals) :
                                        Marked(lay.locals[j][1], prof, feat)}}
    /\ pc = "resolve"
    /\ weak = <<>>
    /\ irqs = IF "calls" \in fxn[find_fxn(fxn, ElfName, "_irq_h")].keys
              THEN <<"_irq_h">> ELSE <<>>
    /\ rtl = RtlClosed
    /\ stack = <<>>
    /\ todo = <<>>
    /\ rows = <<>>
    /\ verdict = NoVerdict
    /\ error = ""
    /\ cnt = [syms |-> 0, lines |-> 0, su |-> 0, manual |-> 0, runs |-> 0]
    /\ hist = [reg |-> <<>>,
               ptr |-> {id \in DOMAIN fxn : fxn[id].has_ptr_call},
               first |-> <<>>,
               body |-> <<>>]

SpecWcs == InitWcs /\ [][Analyse]_vars

\* The same, with both passes run again after the first computation.
NextRerun == Analyse \/ ResolveAgain

SpecRerun == InitWcs /\ [][NextRerun]_vars

---------------------------------------------------------------------------
(* Properties.  The call graph they speak of is read off the raw callee    *)
(* names and the symbol tables, not off r_calls or the engine's state.     *)

\* calc_all_wcs has returned (and nothing has aborted since).
AfterCalc ==
    /\ cnt.runs >= 1
    /\ pc \in {"calc", "check", "done"}
    /\ stack = <<>>
    /\ todo = <<>>

Callees(id) == ResolvedOf(fxn, id)

RECURSIVE Closure(_)
Closure(S) ==
    LET T == S \cup UNION {Callees(x) : x \in S}
    IN IF T = S THEN S ELSE Closure(T)

ReachPlus(id) == Closure(Callees(id))      \* through one or more calls

ReachStar(id) == Closure({id})             \* through zero or more calls

OnCycle(id) == id \in ReachPlus(id)

HasPtrCall(id) == "has_ptr_call" \in fxn[id].keys /\ fxn[id].has_ptr_call

OwnUnresolved(id) ==
    IF "calls" \in fxn[id].keys
    THEN {c \in fxn[id].calls : find_fxn(fxn, fxn[id].tu, c) = NoneId}
    ELSE {}

OwnStack(id) == IF "local_stack" \in fxn[id].keys THEN fxn[id].local_stack ELSE 0

Finalized(id) == "wcs" \in fxn[id].keys

Bounded(id) == Finalized(id) /\ fxn[id].wcs # unbounded

Unbounded(id) == Finalized(id) /\ fxn[id].wcs = unbounded

SetMax(S) == IF S = {} THEN 0 ELSE CHOOSE m \in S : \A x \in S : m >= x

\* own_stack_bytes + max over the callees, on an acyclic graph.
RECURSIVE Bound(_)
Bound(id) == OwnStack(id) + SetMax({Bound(c) : c \in Callees(id)})

PlainAcyclicGraph ==
    \A id \in DOMAIN fxn :
        /\ ~OnCycle(id)
        /\ ~HasPtrCall(id)
        /\ OwnUnresolved(id) = {}
        /\ "clob_sp" \notin fxn[id].keys

\* C1: on an acyclic call graph with no pointer call, no unresolved callee
\* and no clobber, calc_all_wcs leaves every function Bounded(n) with
\* n = own stack bytes + the largest bound among its callees (0 if none),
\* in whatever order the functions and the callees are visited.
C1_BoundIsOwnPlusMaxCallee ==
    (AfterCalc /\ PlainAcyclicGraph) =>
        \A id \in DOMAIN fxn : Bounded(id) /\ fxn[id].wcs = Bound(id)

\* The chain f -> g -> _irq_h with 8/12/4 bytes: 24, 16 and 4.
C1_Witness ==
    /\ AfterCalc /\ PlainAcyclicGraph
    /\ Callees(GId("f")) = {GId("g")}
    /\ Callees(GId("g")) = {GId("_irq_h")}
    /\ fxn[GId("f")].wcs = 24
    /\ fxn[GId("g")].wcs = 16
    /\ fxn[GId("_irq_h")].wcs = 4

\* C2: every function that reaches itself through one or more resolved
\* calls is Unbounded once calc_all_wcs has returned.
C2_CycleMembersUnbounded ==
    AfterCalc => \A id \in DOMAIN fxn : OnCycle(id) => Unbounded(id)

\* f -> g -> f with no indirect call anywhere: both are Unbounded.
C2_Witness ==
    /\ AfterCalc
    /\ GId("g") \in Callees(GId("f"))
    /\ GId("f") \in Callees(GId("g"))
    /\ \A id \in DOMAIN fxn : ~HasPtrCall(id)
    /\ Unbounded(GId("f")) /\ Unbounded(GId("g"))

\* C3 (as claimed): a function for which the extractor has read an
\* indirect call is Unbounded after calc_all_wcs, whatever lines and
\* markers the extractor read after that call.
C3_IndirectCallUnbounded ==
    AfterCalc => \A id \in hist.ptr \cap DOMAIN fxn : Unbounded(id)

IsIrq(id) == startswith(fxn[id].name, "_irq")

AllBounded == \A id \in DOMAIN fxn : Bounded(id)

\* check_stack_size has run: it printed a verdict or raised.
CheckRan == pc = "done" \/ (pc = "aborted" /\ rows # <<>>)

\* C4: when every result is Bounded, check_stack_size computes
\* required = largest ordinary result + largest interrupt handler result
\* (0 for an empty partition) and reports failure exactly when required is
\* greater than the configured limit.
C4_RequiredIsSumOfMaxima ==
    (CheckRan /\ AllBounded) =>
        /\ pc = "done"
        /\ verdict.wcs = SetMax({fxn[id].wcs : id \in {x \in DOMAIN fxn : ~IsIrq(x)}})
                           + SetMax({fxn[id].wcs : id \in {x \in DOMAIN fxn : IsIrq(x)}})
        /\ verdict.kind \in {"too_small", "ok"}
        /\ verdict.kind = "too_small" <=> verdict.wcs > verdict.provided

\* Ordinary worst case 20 (f -> g), handler 4, limit 16: fails, required 24.
C4_Witness ==
    /\ pc = "done"
    /\ fxn[GId("f")].wcs = 20
    /\ fxn[GId("_irq_h")].wcs = 4
    /\ verdict = [kind |-> "too_small", wcs |-> 24, provided |-> 16,
                  fxn |-> "f", irq |-> "_irq_h"]

\* C5 (as claimed): when some result is Unbounded the budget check
\* completes and reports the requirement as unbounded; it neither aborts
\* nor reports a pass.
C5_UnboundedIsReported ==
    (CheckRan /\ ~AllBounded) =>
        /\ pc = "done"
        /\ error = ""
        /\ verdict.kind = "unbounded"

\* C6 (as claimed): registering a Global n of one unit and a Local n of
\* another unit succeeds in either order, and a caller of a third unit
\* then finds the global.  (The symbol table of the ELF holds a static n
\* and a global n only when two different units define them.)
C6_GlobalAndLocalCoexist ==
    /\ \A n \in LoadNames :
         ~(/\ pc = "aborted"
           /\ error = "Exception"
           /\ Len(hist.reg) = 3
           /\ hist.reg[2] = n
           /\ \/ /\ hist.reg[3] = "GLOBAL"
                 /\ n \notin Range(globals)
                 /\ n \in LocalNames
              \/ /\ hist.reg[3] = "LOCAL"
                 /\ n \notin LocalNames
                 /\ n \in Range(globals))
    /\ \A n \in LoadNames, u \in Units \cup {ElfName} :
         (GId(n) \in DOMAIN fxn /\ n \in LocalNames)
            => fxn[find_fxn(fxn, u, n)].binding \in {"GLOBAL", "WEAK"}

\* C7 (as claimed): after resolve_all_calls and calc_all_wcs have run a
\* second time, every function's result, resolved callees and unresolved
\* dependencies are what they were after the first run.
C7_SecondRunChangesNothing ==
    (cnt.runs = 2 /\ CalcFinished) =>
        \A id \in DOMAIN fxn :
            /\ fxn[id].wcs = hist.first[id].wcs
            /\ fxn[id].r_calls = hist.first[id].r_calls
            /\ fxn[id].unresolved_calls = hist.first[id].unresolved_calls

CleanBelow(id) == \A x \in ReachStar(id) : ~HasPtrCall(x) /\ ~OnCycle(x)

UnresolvedBelow(id) == UNION {OwnUnresolved(x) : x \in ReachStar(id)}

\* The rows print_all_fxns printed for a record.
RowsOf(id) ==
    {rows[i] : i \in {j \in 1..Len(rows) :
        /\ rows[j].tu = fxn[id].tu
        /\ rows[j].name = (IF "demangledName" \in fxn[id].keys
                            THEN fxn[id].demangledName ELSE fxn[id].name)
        /\ rows[j].stack[2] = fxn[id].wcs}}

\* C8: unresolved callee names never force Unbounded and are never
\* dropped.  After calc_all_wcs a function that has no pointer call and
\* reaches neither a cycle nor a pointer call is Bounded, and every Bounded
\* function carries, and is printed with, every unresolved name of every
\* function it reaches.
C8_UnresolvedKeptNotFatal ==
    AfterCalc =>
        \A id \in DOMAIN fxn :
            /\ CleanBelow(id) => Bounded(id)
            /\ Bounded(id) =>
                  /\ UnresolvedBelow(id) \subseteq fxn[id].unresolved_calls
                  /\ pc \in {"check", "done"} =>
                        \E r \in RowsOf(id) :
                            UnresolvedBelow(id) \subseteq r.unresolved

\* f -> g and g calls the undefined "ext": f is printed with bound 20 and
\* the name it did not call itself.
C8_Witness ==
    /\ pc = "check"
    /\ GId("g") \in DOMAIN fxn
    /\ fxn[GId("f")].calls = {"g"}
    /\ "ext" \in fxn[GId("g")].calls
    /\ Bounded(GId("f"))
    /\ RowsOf(GId("f")) = {[tu |-> ElfName, name |-> "f",
                             stack |-> <<"unbounded:", 20>>,
                             unresolved |-> {"ext"}]}

\* C9 (as claimed): once a function marker matched no symbol, every
\* following line of the trace is processed without aborting and without
\* changing any function record.
C9_UnmatchedMarkerIsHarmless ==
    [][(/\ pc = "read_rtl"
        /\ rtl.fxn_dict2 = NoneId
        /\ cnt'.lines = cnt.lines + 1
        /\ rtl'.last_fxn = rtl.last_fxn)
         => (error' = "" /\ fxn' = fxn)]_vars

\* C10 (as claimed): a function with clobber bytes c, no pointer call and
\* Bounded callees only ends as Bounded(own stack bytes + c + callee max).
C10_ClobberAddedOnce ==
    AfterCalc =>
        \A id \in DOMAIN fxn :
            ("clob_sp" \in fxn[id].keys /\ Bounded(id)) =>
                fxn[id].wcs = OwnStack(id) + fxn[id].clob_sp
                                + SetMax({fxn[c].wcs : c \in Callees(id)})

\* How often the body of calc_wcs (the loop over r_calls, line 80 on) was
\* entered for a record.
BodyRuns(id) == IF id \in DOMAIN hist.body THEN hist.body[id] ELSE 0

\* A step of calc_all_wcs leaves every result that is set as it is.
C11_ResultKept ==
    pc = "calc" =>
        \A id \in DOMAIN fxn :
            Finalized(id) =>
                /\ id \in DOMAIN fxn'
                /\ "wcs" \in fxn'[id].keys
                /\ fxn'[id].wcs = fxn[id].wcs

\* The body that evaluates the callees ran at most once for every record.
C11_BodyAtMostOnce == \A id \in DOMAIN fxn : BodyRuns(id) <= 1

\* C11 (as claimed): during calc_all_wcs a result that has been set to
\* Bounded(n) or Unbounded never afterwards holds a different value, and the
\* body evaluating a function's callees is executed at most once per function.
C11_ResultIsWriteOnce ==
    [][C11_ResultKept]_vars /\ []C11_BodyAtMostOnce

=============================================================================
